---- MODULE Spec2Model ----
(***************************************************************************)
(* SSD endurance analyzer: the pair validator of smart_parser.py and the   *)
(* endurance engine of endurance_calculator.py.                            *)
(*                                                                         *)
(* Numbers.  Python floats are modelled as exact rationals <<n, d>> in     *)
(* lowest terms with d > 0; float('inf') is the pair <<1, 0>>.  An         *)
(* Optional value is <<>> (None) or <<v>>.  Timestamps are whole seconds.  *)
(* Capacities are scaled down (a drive of one KiB) so that every           *)
(* intermediate product of the engine stays inside TLC's integers; the     *)
(* formulas are the source's, constant for constant.                       *)
(***************************************************************************)
EXTENDS Integers, Sequences, FiniteSets, TLC

VARIABLES snapshot1, snapshot2, params, nand, validated, outcome, metrics,
          content, parse_outcome, parsed,
          args, files, pc, capacity_gb, ran, failure, report, exit_code

\* The validator and the engine.
engineVars == <<snapshot1, snapshot2, params, nand, validated, outcome, metrics>>

\* The extractor: the text read from the file, how parse_file ended, and
\* the SmartData it returned.
parserVars == <<content, parse_outcome, parsed>>

\* The command line: the arguments, the two snapshot files, the stage main
\* is at, the resolved capacity, the stages run so far, the stage that failed,
\* whether the report was written, and the exit status of the process.
mainVars == <<args, files, pc, capacity_gb, ran, failure, report, exit_code>>

vars == <<engineVars, parserVars, mainVars>>

(* ------------------------------ bounds --------------------------------- *)

\* Largest host write counter (data_units_written) of a snapshot.
MaxUnits == 2
\* Largest flash-side write counter handed to calculate.
MaxNand == 1
\* Latest snapshot timestamp, in days after the earliest one.
MaxDays == 2
\* Largest number of lines of a smartctl text.
MaxLines == 3
\* Largest number of rated cycles a second calculator has more than the first.
MaxExtraCycles == 1

(* ---------------------------- Optional[T] ------------------------------ *)

None == <<>>

Some(v) == <<v>>

IsNone(o) == o = <<>>

Val(o) == o[1]

(* --------------------------- float arithmetic -------------------------- *)

Abs(n) == IF n < 0 THEN -n ELSE n

RECURSIVE GCD(_, _)
GCD(a, b) == IF b = 0 THEN a ELSE GCD(b, a % b)

\* The rational n/d (d # 0) in lowest terms with a positive denominator.
Rat(n, d) ==
    LET g == GCD(Abs(n), Abs(d))
        s == IF d < 0 THEN -1 ELSE 1
    IN  <<s * (n \div g), s * (d \div g)>>

Num(n) == <<n, 1>>

Inf == <<1, 0>>

IsInf(a) == a[2] = 0

RMul(a, b) ==
    LET g1 == GCD(Abs(a[1]), b[2])
        g2 == GCD(Abs(b[1]), a[2])
    IN  <<(a[1] \div g1) * (b[1] \div g2), (a[2] \div g2) * (b[2] \div g1)>>

\* a / b for b # 0 (the callers guard the zero divisor as the source does).
RDiv(a, b) ==
    RMul(a, IF b[1] < 0 THEN <<-b[2], -b[1]>> ELSE <<b[2], b[1]>>)

RSub(a, b) ==
    LET g == GCD(a[2], b[2])
        l == (a[2] \div g) * b[2]
    IN  Rat(a[1] * (l \div a[2]) - b[1] * (l \div b[2]), l)

RGt0(a) == a[1] > 0

RLe0(a) == a[1] <= 0

RIsZero(a) == a[1] = 0 /\ a[2] # 0

RLt0(a) == a[1] < 0

\* a >= b, for finite a and b.
RGe(a, b) == ~RLt0(RSub(a, b))

\* x / (1024 ** k), one factor of 1024 at a time.
RECURSIVE DivKiBPow(_, _)
DivKiBPow(x, k) == IF k = 0 THEN x ELSE DivKiBPow(RDiv(x, Num(1024)), k - 1)

(* ------------------------------ SmartData ------------------------------ *)

\* Serial numbers as parse_file can produce them: absent, empty after
\* strip(), or one of two different non-empty strings.
Serials == {None, Some(""), Some("SN1"), Some("SN2")}

Timestamps == {None} \cup {Some(86400 * k) : k \in 0..MaxDays}

SmartData ==
    [serial : Serials, timestamp : Timestamps, data_units_written : 0..MaxUnits]

\* Python truthiness of an Optional[str]: None and '' are both falsy.
TruthyStr(o) == ~IsNone(o) /\ Val(o) # ""

\* Python truthiness of an Optional[datetime]: every datetime is truthy.
TruthyTime(o) == ~IsNone(o)

(* ----------------------------- _DriveParams ---------------------------- *)

HostLbaSizes == {Num(1), Num(2)}

FlashLbaSizes == {Num(1), Num(32)}

RatedPeCycles == {1, 3}

\* Capacity in GB: 2^-20 GB, a drive of 1024 bytes.
Capacities == {Rat(1, 1024 * 1024)}

BytesPerGB == Num(1024 * 1024 * 1024)

DriveParams(h, f, r, c) ==
    [host_lba_size_kb |-> h, flash_lba_size_kb |-> f, rated_pe_cycles |-> r,
     capacity_gb |-> c, capacity_bytes |-> RMul(c, BytesPerGB)]

NandCounters == {None} \cup {Some(n) : n \in 0..MaxNand}

(* ------------------------- smartctl output text ------------------------ *)

(***************************************************************************)
(* A text is a sequence of lines, a line a sequence of tokens separated by *)
(* single blanks, a token a sequence of chunks.  A chunk is one character  *)
(* ("5", ",", "%") or a run of characters that the patterns only match as  *)
(* a whole ("Written:", "bytes", "Old_age").  Every line ends with "\n".   *)
(***************************************************************************)

DigitVal ==
    "0" :> 0 @@ "1" :> 1 @@ "2" :> 2 @@ "3" :> 3 @@ "4" :> 4 @@
    "5" :> 5 @@ "6" :> 6 @@ "7" :> 7 @@ "8" :> 8 @@ "9" :> 9

\* [0-9]
IsDigit(c) == c \in DOMAIN DigitVal

\* [0-9,]
IsNumChar(c) == IsDigit(c) \/ c = ","

\* The tokens of the text in reading order, each with its line number.
RECURSIVE Flatten(_, _)
Flatten(text, i) ==
    IF i > Len(text) THEN <<>>
    ELSE [j \in 1..Len(text[i]) |-> [tok |-> text[i][j], line |-> i]]
         \o Flatten(text, i + 1)

\* The characters of a token, as one string.
RECURSIVE TokStr(_)
TokStr(tok) == IF tok = <<>> THEN "" ELSE Head(tok) \o TokStr(Tail(tok))

\* The token ends with the literal lit.
EndsWith(tok, lit) ==
    /\ Len(tok) >= Len(lit)
    /\ SubSeq(tok, Len(tok) - Len(lit) + 1, Len(tok)) = lit

\* The token starts with the literal lit.
StartsWith(tok, lit) ==
    /\ Len(tok) >= Len(lit)
    /\ SubSeq(tok, 1, Len(lit)) = lit

\* The length of the longest prefix of tok whose chunks are all in cls.
RunLen(tok, cls) ==
    CHOOSE k \in 0..Len(tok) :
        /\ \A i \in 1..k : tok[i] \in cls
        /\ k = Len(tok) \/ tok[k + 1] \notin cls

Digits == DOMAIN DigitVal

NumChars == Digits \cup {","}

\* A literal label (words separated by one blank, then \s+) matches with
\* its first word at token i: the pattern is unanchored, so the first token
\* need only end with the first word; the last word is followed by
\* whitespace, so it ends its token.
LabelAt(flat, i, label) ==
    LET n == Len(label)
    IN  /\ i + n - 1 <= Len(flat)
        /\ \A k \in 1..n : flat[i + k - 1].line = flat[i].line
        /\ EndsWith(flat[i].tok, label[1])
        /\ \A k \in 2..n : flat[i + k - 1].tok = label[k]

\* ([0-9,]+)
CaptureNum(flat, v) ==
    LET k == RunLen(flat[v].tok, NumChars)
    IN  IF k = 0 THEN None ELSE Some(SubSeq(flat[v].tok, 1, k))

\* ([0-9]+)%
CapturePercent(flat, v) ==
    LET tok == flat[v].tok
        k == RunLen(tok, Digits)
    IN  IF k > 0 /\ k < Len(tok) /\ tok[k + 1] = "%"
        THEN Some(SubSeq(tok, 1, k)) ELSE None

\* ([0-9,]+)\s+bytes
CaptureNumBytes(flat, v) ==
    LET tok == flat[v].tok
    IN  IF /\ RunLen(tok, NumChars) = Len(tok)
           /\ v + 1 <= Len(flat)
           /\ StartsWith(flat[v + 1].tok, <<"bytes">>)
        THEN Some(tok) ELSE None

\* ([0-9,]+)\s+
CaptureNumSpace(flat, v) ==
    LET tok == flat[v].tok
    IN  IF RunLen(tok, NumChars) = Len(tok) THEN Some(tok) ELSE None

\* (.+) and (.+?)(?:\n|$), stripped: the rest of the line, from token v on.
RECURSIVE RestOfLine(_, _)
RestOfLine(flat, v) ==
    IF v + 1 <= Len(flat) /\ flat[v + 1].line = flat[v].line
    THEN TokStr(flat[v].tok) \o " " \o RestOfLine(flat, v + 1)
    ELSE TokStr(flat[v].tok)

CaptureRest(flat, v) == Some(RestOfLine(flat, v))

\* \s+\S+\s+\S+\s+\S+\s+\S+\s+\S+\s+\S+\s+\S+\s+\S+\s+(\d+): eight columns
\* after the one that matched, then the leading digits of the ninth.
CaptureRawColumn(flat, v) ==
    IF v + 8 > Len(flat) THEN None
    ELSE LET k == RunLen(flat[v + 8].tok, Digits)
         IN  IF k = 0 THEN None ELSE Some(SubSeq(flat[v + 8].tok, 1, k))

\* Group 1 of the pattern of the given kind, with the token after the label
\* at index v: None when the pattern does not match there.
Capture(kind, flat, v) ==
    CASE kind = "[0-9,]+" -> CaptureNum(flat, v)
      [] kind = "[0-9]+%" -> CapturePercent(flat, v)
      [] kind = "[0-9,]+ bytes" -> CaptureNumBytes(flat, v)
      [] kind = "[0-9,]+ " -> CaptureNumSpace(flat, v)
      [] kind = ".+" -> CaptureRest(flat, v)
      [] kind = "raw column" -> CaptureRawColumn(flat, v)

\* re.search(label \s+ capture): the capture at the leftmost position where
\* one of the alternative labels is followed by a token on which the capture
\* succeeds; None when there is no such position.
Search(flat, labels, kind) ==
    LET Hit(i) == {l \in labels : /\ LabelAt(flat, i, l)
                                  /\ i + Len(l) <= Len(flat)
                                  /\ ~IsNone(Capture(kind, flat, i + Len(l)))}
        hits == {i \in 1..Len(flat) : Hit(i) # {}}
    IN  IF hits = {} THEN None
        ELSE LET i == CHOOSE x \in hits : \A y \in hits : x <= y
                 l == CHOOSE x \in Hit(i) : TRUE
             IN  Capture(kind, flat, i + Len(l))

\* .replace(',', '')
RECURSIVE StripCommas(_)
StripCommas(cs) ==
    IF cs = <<>> THEN <<>>
    ELSE IF Head(cs) = "," THEN StripCommas(Tail(cs))
    ELSE <<Head(cs)>> \o StripCommas(Tail(cs))

RECURSIVE DecimalValue(_)
DecimalValue(ds) ==
    IF ds = <<>> THEN 0
    ELSE 10 * DecimalValue(SubSeq(ds, 1, Len(ds) - 1)) + DigitVal[ds[Len(ds)]]

\* int(s) of a string of digits: None stands for the ValueError that int('')
\* raises.
int(ds) == IF ds = <<>> THEN None ELSE Some(DecimalValue(ds))

(* --------------------------- lines of a text --------------------------- *)

\* A token that the patterns read as a whole.
W(word) == <<word>>

\* The health-log header of the flash dialect; it carries the marker.
LineNvmeHeader == <<W("SMART/Health"), W("Information"), <<"(", "NVMe">>, W("Log)")>>

LineWritten5 == <<W("Data"), W("Units"), W("Written:"), <<"5">>>>

LineWritten12 == <<W("Data"), W("Units"), W("Written:"), <<"1", ",", "2">>>>

\* Separators only: [0-9,]+ matches, and nothing is left for int().
LineWrittenCommas == <<W("Data"), W("Units"), W("Written:"), <<",">>>>

LineReadCommas == <<W("Data"), W("Units"), W("Read:"), <<",">>>>

LinePowerOn3 == <<W("Power"), W("On"), W("Hours:"), <<"3">>>>

LineUsed4 == <<W("Percentage"), W("Used:"), <<"4", "%">>>>

LineCapacity == <<W("User"), W("Capacity:"), <<"1", ",", "0", "2", "4">>, W("bytes")>>

LineCapacityCommas == <<W("User"), W("Capacity:"), <<",">>, W("bytes")>>

LineCapacityZero == <<W("User"), W("Capacity:"), <<"0">>, W("bytes")>>

LineSerial == <<W("Serial"), W("Number:"), W("SN1")>>

LineTimeIso == <<W("Local"), W("Time"), W("is:"), W("2026-01-01"), W("00:00:00")>>

LineTimeIsoNext == <<W("Local"), W("Time"), W("is:"), W("2026-01-02"), W("00:00:00")>>

LineTimeUnknown == <<W("Local"), W("Time"), W("is:"), W("yesterday")>>

\* ID# ATTRIBUTE_NAME FLAG VALUE WORST THRESH TYPE UPDATED WHEN_FAILED RAW
LineAttr241 ==
    <<<<"2", "4", "1">>, W("Total_LBAs_Written"), W("0x0032"), <<"1", "0", "0">>,
      <<"1", "0", "0">>, <<"0", "0", "0">>, W("Old_age"), W("Always"), W("-"),
      <<"7">>>>

\* The raw column written with a thousands separator.
LineAttr241Commas ==
    <<<<"2", "4", "1">>, W("Total_LBAs_Written"), W("0x0032"), <<"1", "0", "0">>,
      <<"1", "0", "0">>, <<"0", "0", "0">>, W("Old_age"), W("Always"), W("-"),
      <<"1", ",", "2">>>>

LineAttr9 ==
    <<<<"9">>, W("Power_On_Hours"), W("0x0032"), <<"1", "0", "0">>,
      <<"1", "0", "0">>, <<"0", "0", "0">>, W("Old_age"), W("Always"), W("-"),
      <<"3">>>>

\* Another attribute, whose ID ends with the digit 9.
LineAttr199 ==
    <<<<"1", "9", "9">>, W("UDMA_CRC_Error_Count"), W("0x003e"), <<"2", "0", "0">>,
      <<"2", "0", "0">>, <<"0", "0", "0">>, W("Old_age"), W("Always"), W("-"),
      <<"8">>>>

Lines ==
    {LineNvmeHeader, LineWritten5, LineWritten12, LineWrittenCommas,
     LineReadCommas, LinePowerOn3, LineUsed4, LineCapacity, LineCapacityCommas,
     LineCapacityZero, LineSerial, LineTimeIso, LineTimeIsoNext, LineTimeUnknown,
     LineAttr241, LineAttr241Commas, LineAttr9, LineAttr199}

\* The texts of at most MaxLines lines.
Texts == UNION {[1..n -> Lines] : n \in 0..MaxLines}

(* ------------------------------ strptime ------------------------------- *)

\* The time strings the model knows, by the grammar that accepts them, with
\* the datetime (in seconds) they denote.
TimeWithZone ==
    "Thu Jan 1 00:00:00 2026 UTC" :> 0 @@ "Fri Jan 2 00:00:00 2026 UTC" :> 86400

TimeWithoutZone ==
    "Thu Jan 1 00:00:00 2026" :> 0 @@ "Fri Jan 2 00:00:00 2026" :> 86400

TimeIso ==
    "2026-01-01 00:00:00" :> 0 @@ "2026-01-02 00:00:00" :> 86400

\* datetime.strptime(time_str, fmt): None stands for its ValueError.  '%c' is
\* the C locale's, the grammar of '%a %b %d %H:%M:%S %Y'.
strptime(time_str, fmt) ==
    LET table == CASE fmt = "%a %b %d %H:%M:%S %Y %Z" -> TimeWithZone
                   [] fmt = "%a %b %d %H:%M:%S %Y" -> TimeWithoutZone
                   [] fmt = "%Y-%m-%d %H:%M:%S" -> TimeIso
                   [] fmt = "%c" -> TimeWithoutZone
    IN  IF time_str \in DOMAIN table THEN Some(table[time_str]) ELSE None

TimeFormats ==
    <<"%a %b %d %H:%M:%S %Y %Z", "%a %b %d %H:%M:%S %Y", "%Y-%m-%d %H:%M:%S", "%c">>

(* ------------------------------ parse_file ----------------------------- *)

Label(ws) == [k \in 1..Len(ws) |-> <<ws[k]>>]

\* 'NVMe' in content or 'NVME' in content
is_nvme(flat) ==
    \E i \in 1..Len(flat) : \E c \in 1..Len(flat[i].tok) :
        flat[i].tok[c] \in {"NVMe", "NVME"}

\* _parse_timestamp: the first format that parses the captured line.
parse_timestamp(flat) ==
    LET m == Search(flat, {Label(<<"Local", "Time", "is:">>)}, ".+")
    IN  IF IsNone(m) THEN None
        ELSE LET ok == {f \in 1..Len(TimeFormats) :
                           ~IsNone(strptime(Val(m), TimeFormats[f]))}
             IN  IF ok = {} THEN None
                 ELSE strptime(Val(m),
                               TimeFormats[CHOOSE f \in ok : \A g \in ok : f <= g])

\* An integer field: [found |-> the pattern matched, value |-> int(...) of
\* the capture without its commas, None when int raises].
IntField(m) ==
    [found |-> ~IsNone(m),
     value |-> IF IsNone(m) THEN None ELSE int(StripCommas(Val(m)))]

\* _parse_capacity
parse_capacity(flat) ==
    LET m1 == Search(flat, {Label(<<"User", "Capacity:">>)}, "[0-9,]+ bytes")
        m2 == Search(flat, {Label(<<"Namespace", "1", "Size/Capacity:">>)},
                     "[0-9,]+ ")
    IN  IntField(IF ~IsNone(m1) THEN m1 ELSE m2)

\* The write counter under the flash dialect's rule.
nvme_written(flat) ==
    IntField(Search(flat, {Label(<<"Data", "Units", "Written:">>)}, "[0-9,]+"))

\* The write counter under the legacy dialect's rule.
sata_written(flat) ==
    IntField(Search(flat, {<<<<"2", "4", "1">>>>, Label(<<"Total_LBAs_Written">>)},
                    "raw column"))

NoField == [found |-> FALSE, value |-> None]

\* Mutant: the dialect branch inverted (the legacy rule on a marked text).
parse_dialect_fields_swapped(flat, nvme) ==
    IF ~nvme
    THEN [written |-> nvme_written(flat), read |-> NoField, power_on |-> NoField,
          pct_used |-> NoField, spare |-> NoField]
    ELSE [written |-> sata_written(flat), read |-> NoField, power_on |-> NoField,
          pct_used |-> NoField, spare |-> NoField]

\* The four integer fields _parse_nvme_fields and _parse_sata_fields set
\* between them, and the two percentages of the flash dialect.
parse_dialect_fields(flat, nvme) ==
    IF nvme
    THEN [written |-> nvme_written(flat),
          read |-> IntField(Search(flat, {Label(<<"Data", "Units", "Read:">>)},
                                   "[0-9,]+")),
          power_on |-> IntField(Search(flat, {Label(<<"Power", "On", "Hours:">>)},
                                       "[0-9,]+")),
          pct_used |-> IntField(Search(flat, {Label(<<"Percentage", "Used:">>)},
                                       "[0-9]+%")),
          spare |-> IntField(Search(flat, {Label(<<"Available", "Spare:">>)},
                                    "[0-9]+%"))]
    ELSE [written |-> sata_written(flat),
          read |-> NoField,
          power_on |-> IntField(Search(flat, {<<<<"9">>>>, Label(<<"Power_On_Hours">>)},
                                       "raw column")),
          pct_used |-> NoField,
          spare |-> NoField]

\* The end of parse_file, with the capacity and the dialect's fields read:
\* the ValueError of an int() that failed, the missing-field ValueError, or
\* the SmartData.
snapshot_of(flat, nvme, cap, f) ==
    IF \E x \in {cap, f.written, f.read, f.power_on, f.pct_used, f.spare} :
          x.found /\ IsNone(x.value)
    THEN [raised |-> "invalid_literal", data |-> None]
    ELSE IF IsNone(f.written.value)
    THEN [raised |-> "could_not_parse", data |-> None]
    ELSE [raised |-> "none",
          data |-> Some(
             [timestamp |-> parse_timestamp(flat),
              model |-> Search(flat, {Label(<<"Device", "Model:">>),
                                      Label(<<"Model", "Number:">>),
                                      Label(<<"Product:">>)}, ".+"),
              serial |-> Search(flat, {Label(<<"Serial", "Number:">>)}, ".+"),
              capacity_bytes |-> cap.value,
              data_units_written |-> Val(f.written.value),
              data_units_read |-> f.read.value,
              power_on_hours |-> f.power_on.value,
              percentage_used |-> f.pct_used.value,
              available_spare |-> f.spare.value,
              is_nvme |-> nvme])]

\* parse_file once the dialect is detected.
parse_content(flat, nvme) ==
    snapshot_of(flat, nvme, parse_capacity(flat), parse_dialect_fields(flat, nvme))

\* SmartParser.parse_file on the text of the file: [raised |-> "none" or the
\* ValueError, data |-> the SmartData returned].
parse_file(text) == parse_content(Flatten(text, 1), is_nvme(Flatten(text, 1)))

(* ------------------- SmartParser.validate_snapshots -------------------- *)

\* Mutant: the timestamp check uses > for >=, so equal timestamps pass.
validate_snapshots_equal_time(s1, s2) ==
    IF /\ TruthyStr(s1.serial) /\ TruthyStr(s2.serial)
       /\ s1.serial # s2.serial
    THEN "different_drives"
    ELSE IF /\ TruthyTime(s1.timestamp) /\ TruthyTime(s2.timestamp)
            /\ Val(s1.timestamp) > Val(s2.timestamp)
    THEN "timestamp_order"
    ELSE IF s2.data_units_written < s1.data_units_written
    THEN "units_decreased"
    ELSE "ok"

\* Mutant: the timestamp check runs before the serial check.
validate_snapshots_time_first(s1, s2) ==
    IF /\ TruthyTime(s1.timestamp) /\ TruthyTime(s2.timestamp)
       /\ Val(s1.timestamp) >= Val(s2.timestamp)
    THEN "timestamp_order"
    ELSE IF /\ TruthyStr(s1.serial) /\ TruthyStr(s2.serial)
            /\ s1.serial # s2.serial
    THEN "different_drives"
    ELSE IF s2.data_units_written < s1.data_units_written
    THEN "units_decreased"
    ELSE "ok"

\* Mutant: the serials are compared without the guard that both are set.
validate_snapshots_unguarded(s1, s2) ==
    IF s1.serial # s2.serial
    THEN "different_drives"
    ELSE IF /\ TruthyTime(s1.timestamp) /\ TruthyTime(s2.timestamp)
            /\ Val(s1.timestamp) >= Val(s2.timestamp)
    THEN "timestamp_order"
    ELSE IF s2.data_units_written < s1.data_units_written
    THEN "units_decreased"
    ELSE "ok"

\* Mutant: the counter check runs first.
validate_snapshots_counter_first(s1, s2) ==
    IF s2.data_units_written < s1.data_units_written
    THEN "units_decreased"
    ELSE IF /\ TruthyStr(s1.serial) /\ TruthyStr(s2.serial)
            /\ s1.serial # s2.serial
    THEN "different_drives"
    ELSE IF /\ TruthyTime(s1.timestamp) /\ TruthyTime(s2.timestamp)
            /\ Val(s1.timestamp) >= Val(s2.timestamp)
    THEN "timestamp_order"
    ELSE "ok"

\* The outcome of validate_snapshots(s1, s2): "ok" when it returns, else
\* the ValueError it raises, named after the check that raised it.
validate_snapshots(s1, s2) ==
    IF /\ TruthyStr(s1.serial) /\ TruthyStr(s2.serial)
       /\ s1.serial # s2.serial
    THEN "different_drives"
    ELSE IF /\ TruthyTime(s1.timestamp) /\ TruthyTime(s2.timestamp)
            /\ Val(s1.timestamp) >= Val(s2.timestamp)
    THEN "timestamp_order"
    ELSE IF s2.data_units_written < s1.data_units_written
    THEN "units_decreased"
    ELSE "ok"

(* ------------------------- EnduranceCalculator ------------------------- *)

\* EnduranceMetrics(): every field 0.0.
EnduranceMetrics ==
    [time_delta_days |-> Num(0), host_writes_delta |-> Num(0),
     flash_writes_delta |-> Num(0), waf |-> Num(0),
     total_host_writes_tb |-> Num(0), total_flash_writes_tb |-> Num(0),
     dwpd |-> Num(0), daily_write_rate_gb |-> Num(0),
     pe_cycles_consumed |-> Num(0), estimated_remaining_days |-> Num(0),
     estimated_remaining_years |-> Num(0), wear_percentage |-> Num(0)]

\* Mutant: only snapshot 2's flash counter is tested; a missing snapshot 1
\* counter counts as 0.
calculate_waf_one_counter(p, m, snap1_nand, snap2_nand) ==
    IF ~IsNone(snap2_nand)
    THEN LET flash_delta ==
                 Val(snap2_nand) - (IF IsNone(snap1_nand) THEN 0 ELSE Val(snap1_nand))
             fwd == RMul(RMul(Num(flash_delta), p.flash_lba_size_kb), Num(1024))
         IN  [flash_writes_delta |-> fwd,
              total_flash_writes_tb |->
                  DivKiBPow(RMul(RMul(Num(Val(snap2_nand)), p.flash_lba_size_kb),
                                 Num(1024)), 4),
              waf |-> IF RGt0(m.host_writes_delta)
                      THEN RDiv(fwd, m.host_writes_delta)
                      ELSE Num(1)]
    ELSE [flash_writes_delta |-> RMul(m.host_writes_delta, Num(1)),
          total_flash_writes_tb |-> RMul(m.total_host_writes_tb, Num(1)),
          waf |-> Num(1)]

\* Mutant: the branch for a host delta that is not positive is missing, so
\* waf keeps the 0.0 EnduranceMetrics() gave it.
calculate_waf_no_else(p, m, snap1_nand, snap2_nand) ==
    IF ~IsNone(snap1_nand) /\ ~IsNone(snap2_nand)
    THEN LET flash_delta == Val(snap2_nand) - Val(snap1_nand)
             fwd == RMul(RMul(Num(flash_delta), p.flash_lba_size_kb), Num(1024))
         IN  [flash_writes_delta |-> fwd,
              total_flash_writes_tb |->
                  DivKiBPow(RMul(RMul(Num(Val(snap2_nand)), p.flash_lba_size_kb),
                                 Num(1024)), 4),
              waf |-> IF RGt0(m.host_writes_delta)
                      THEN RDiv(fwd, m.host_writes_delta)
                      ELSE m.waf]
    ELSE [flash_writes_delta |-> RMul(m.host_writes_delta, Num(1)),
          total_flash_writes_tb |-> RMul(m.total_host_writes_tb, Num(1)),
          waf |-> Num(1)]

\* Mutant: the flash byte delta is scaled by the host unit size.
calculate_waf_host_unit(p, m, snap1_nand, snap2_nand) ==
    IF ~IsNone(snap1_nand) /\ ~IsNone(snap2_nand)
    THEN LET flash_delta == Val(snap2_nand) - Val(snap1_nand)
             fwd == RMul(RMul(Num(flash_delta), p.host_lba_size_kb), Num(1024))
         IN  [flash_writes_delta |-> fwd,
              total_flash_writes_tb |->
                  DivKiBPow(RMul(RMul(Num(Val(snap2_nand)), p.flash_lba_size_kb),
                                 Num(1024)), 4),
              waf |-> IF RGt0(m.host_writes_delta)
                      THEN RDiv(fwd, m.host_writes_delta)
                      ELSE Num(1)]
    ELSE [flash_writes_delta |-> RMul(m.host_writes_delta, Num(1)),
          total_flash_writes_tb |-> RMul(m.total_host_writes_tb, Num(1)),
          waf |-> Num(1)]

\* Mutant: without flash counters the assumed waf is the flash unit size.
calculate_waf_flash_unit_default(p, m, snap1_nand, snap2_nand) ==
    IF ~IsNone(snap1_nand) /\ ~IsNone(snap2_nand)
    THEN LET flash_delta == Val(snap2_nand) - Val(snap1_nand)
             fwd == RMul(RMul(Num(flash_delta), p.flash_lba_size_kb), Num(1024))
         IN  [flash_writes_delta |-> fwd,
              total_flash_writes_tb |->
                  DivKiBPow(RMul(RMul(Num(Val(snap2_nand)), p.flash_lba_size_kb),
                                 Num(1024)), 4),
              waf |-> IF RGt0(m.host_writes_delta)
                      THEN RDiv(fwd, m.host_writes_delta)
                      ELSE Num(1)]
    ELSE [flash_writes_delta |-> RMul(m.host_writes_delta, p.flash_lba_size_kb),
          total_flash_writes_tb |-> RMul(m.total_host_writes_tb, p.flash_lba_size_kb),
          waf |-> p.flash_lba_size_kb]

\* The three fields _calculate_waf assigns, from the metrics so far.
calculate_waf(p, m, snap1_nand, snap2_nand) ==
    IF ~IsNone(snap1_nand) /\ ~IsNone(snap2_nand)
    THEN LET flash_delta == Val(snap2_nand) - Val(snap1_nand)
             fwd == RMul(RMul(Num(flash_delta), p.flash_lba_size_kb), Num(1024))
         IN  [flash_writes_delta |-> fwd,
              total_flash_writes_tb |->
                  DivKiBPow(RMul(RMul(Num(Val(snap2_nand)), p.flash_lba_size_kb),
                                 Num(1024)), 4),
              waf |-> IF RGt0(m.host_writes_delta)
                      THEN RDiv(fwd, m.host_writes_delta)
                      ELSE Num(1)]
    ELSE [flash_writes_delta |-> RMul(m.host_writes_delta, Num(1)),
          total_flash_writes_tb |-> RMul(m.total_host_writes_tb, Num(1)),
          waf |-> Num(1)]

\* Mutant: the test remaining_pe > 0 is missing.
calculate_remaining_lifetime_no_budget_test(p, m) ==
    LET remaining_pe == RSub(Num(p.rated_pe_cycles), m.pe_cycles_consumed)
    IN  IF RGt0(m.daily_write_rate_gb)
        THEN LET remaining_bytes == RMul(remaining_pe, p.capacity_bytes)
                 daily_flash_bytes ==
                     RMul(RMul(m.daily_write_rate_gb, BytesPerGB), m.waf)
             IN  IF RGt0(daily_flash_bytes)
                 THEN LET days == RDiv(remaining_bytes, daily_flash_bytes)
                      IN  [estimated_remaining_days |-> days,
                           estimated_remaining_years |->
                               RDiv(days, Rat(36525, 100))]
                 ELSE [estimated_remaining_days |-> Inf,
                       estimated_remaining_years |-> Inf]
        ELSE [estimated_remaining_days |-> Num(0),
              estimated_remaining_years |-> Num(0)]

\* Mutant: the write-rate test is >= 0 for > 0, so an idle drive
\* falls through to the infinite case.
calculate_remaining_lifetime_idle_unbounded(p, m) ==
    LET remaining_pe == RSub(Num(p.rated_pe_cycles), m.pe_cycles_consumed)
    IN  IF RGt0(remaining_pe) /\ ~RLt0(m.daily_write_rate_gb)
        THEN LET remaining_bytes == RMul(remaining_pe, p.capacity_bytes)
                 daily_flash_bytes ==
                     RMul(RMul(m.daily_write_rate_gb, BytesPerGB), m.waf)
             IN  IF RGt0(daily_flash_bytes)
                 THEN LET days == RDiv(remaining_bytes, daily_flash_bytes)
                      IN  [estimated_remaining_days |-> days,
                           estimated_remaining_years |->
                               RDiv(days, Rat(36525, 100))]
                 ELSE [estimated_remaining_days |-> Inf,
                       estimated_remaining_years |-> Inf]
        ELSE [estimated_remaining_days |-> Num(0),
              estimated_remaining_years |-> Num(0)]

\* Mutant: the remaining bytes are one capacity, whatever cycles remain.
calculate_remaining_lifetime_one_cycle(p, m) ==
    LET remaining_pe == RSub(Num(p.rated_pe_cycles), m.pe_cycles_consumed)
    IN  IF RGt0(remaining_pe) /\ RGt0(m.daily_write_rate_gb)
        THEN LET remaining_bytes == p.capacity_bytes
                 daily_flash_bytes ==
                     RMul(RMul(m.daily_write_rate_gb, BytesPerGB), m.waf)
             IN  IF RGt0(daily_flash_bytes)
                 THEN LET days == RDiv(remaining_bytes, daily_flash_bytes)
                      IN  [estimated_remaining_days |-> days,
                           estimated_remaining_years |->
                               RDiv(days, Rat(36525, 100))]
                 ELSE [estimated_remaining_days |-> Inf,
                       estimated_remaining_years |-> Inf]
        ELSE [estimated_remaining_days |-> Num(0),
              estimated_remaining_years |-> Num(0)]

\* The two fields _calculate_remaining_lifetime assigns.
calculate_remaining_lifetime(p, m) ==
    LET remaining_pe == RSub(Num(p.rated_pe_cycles), m.pe_cycles_consumed)
    IN  IF RGt0(remaining_pe) /\ RGt0(m.daily_write_rate_gb)
        THEN LET remaining_bytes == RMul(remaining_pe, p.capacity_bytes)
                 daily_flash_bytes ==
                     RMul(RMul(m.daily_write_rate_gb, BytesPerGB), m.waf)
             IN  IF RGt0(daily_flash_bytes)
                 THEN LET days == RDiv(remaining_bytes, daily_flash_bytes)
                      IN  [estimated_remaining_days |-> days,
                           estimated_remaining_years |->
                               RDiv(days, Rat(36525, 100))]
                 ELSE [estimated_remaining_days |-> Inf,
                       estimated_remaining_years |-> Inf]
        ELSE [estimated_remaining_days |-> Num(0),
              estimated_remaining_years |-> Num(0)]

\* Mutant: only a zero elapsed time is rejected (== 0 for <= 0).
time_delta_rejected_zero_only(time_delta_days) == RIsZero(time_delta_days)

\* The guard "if metrics.time_delta_days <= 0" of calculate.
time_delta_rejected(time_delta_days) == RLe0(time_delta_days)

\* Mutant: the total host bytes are taken from snapshot 1's counter.
calculate_total_from_first(p, d1, d2, t1, t2, n1, n2) ==
    IF IsNone(t1) \/ IsNone(t2)
    THEN [raised |-> "TypeError", metrics |-> None]
    ELSE
    LET time_delta_days == Rat(Val(t2) - Val(t1), 86400)
    IN
    IF time_delta_rejected(time_delta_days)
    THEN [raised |-> "ValueError", metrics |-> None]
    ELSE IF RIsZero(p.capacity_gb) \/ p.rated_pe_cycles = 0
    THEN [raised |-> "ZeroDivisionError", metrics |-> None]
    ELSE
    LET host_units_delta == d2 - d1
        host_writes_delta ==
            RMul(RMul(Num(host_units_delta), p.host_lba_size_kb), Num(1024))
        total_host_bytes == RMul(RMul(Num(d1), p.host_lba_size_kb), Num(1024))
        daily_host_gb == RDiv(host_writes_delta, BytesPerGB)
        daily_write_rate_gb == RDiv(daily_host_gb, time_delta_days)
        m1 == [EnduranceMetrics EXCEPT
                 !.time_delta_days = time_delta_days,
                 !.host_writes_delta = host_writes_delta,
                 !.total_host_writes_tb = DivKiBPow(total_host_bytes, 4),
                 !.daily_write_rate_gb = daily_write_rate_gb,
                 !.dwpd = RDiv(daily_write_rate_gb, p.capacity_gb)]
        w == calculate_waf(p, m1, n1, n2)
        m2 == [m1 EXCEPT !.flash_writes_delta = w.flash_writes_delta,
                         !.total_flash_writes_tb = w.total_flash_writes_tb,
                         !.waf = w.waf]
        total_flash_bytes ==
            RMul(RMul(RMul(Num(d2), p.host_lba_size_kb), Num(1024)), m2.waf)
        pe == RDiv(total_flash_bytes, p.capacity_bytes)
        m3 == [m2 EXCEPT !.pe_cycles_consumed = pe,
                         !.wear_percentage =
                             RMul(RDiv(pe, Num(p.rated_pe_cycles)), Num(100))]
        l == calculate_remaining_lifetime(p, m3)
    IN  [raised |-> "none",
         metrics |-> Some([m3 EXCEPT
             !.estimated_remaining_days = l.estimated_remaining_days,
             !.estimated_remaining_years = l.estimated_remaining_years])]

\* Mutant: the daily write rate is not divided by the elapsed days.
calculate_rate_per_period(p, d1, d2, t1, t2, n1, n2) ==
    IF IsNone(t1) \/ IsNone(t2)
    THEN [raised |-> "TypeError", metrics |-> None]
    ELSE
    LET time_delta_days == Rat(Val(t2) - Val(t1), 86400)
    IN
    IF time_delta_rejected(time_delta_days)
    THEN [raised |-> "ValueError", metrics |-> None]
    ELSE IF RIsZero(p.capacity_gb) \/ p.rated_pe_cycles = 0
    THEN [raised |-> "ZeroDivisionError", metrics |-> None]
    ELSE
    LET host_units_delta == d2 - d1
        host_writes_delta ==
            RMul(RMul(Num(host_units_delta), p.host_lba_size_kb), Num(1024))
        total_host_bytes == RMul(RMul(Num(d2), p.host_lba_size_kb), Num(1024))
        daily_host_gb == RDiv(host_writes_delta, BytesPerGB)
        daily_write_rate_gb == daily_host_gb
        m1 == [EnduranceMetrics EXCEPT
                 !.time_delta_days = time_delta_days,
                 !.host_writes_delta = host_writes_delta,
                 !.total_host_writes_tb = DivKiBPow(total_host_bytes, 4),
                 !.daily_write_rate_gb = daily_write_rate_gb,
                 !.dwpd = RDiv(daily_write_rate_gb, p.capacity_gb)]
        w == calculate_waf(p, m1, n1, n2)
        m2 == [m1 EXCEPT !.flash_writes_delta = w.flash_writes_delta,
                         !.total_flash_writes_tb = w.total_flash_writes_tb,
                         !.waf = w.waf]
        total_flash_bytes ==
            RMul(RMul(RMul(Num(d2), p.host_lba_size_kb), Num(1024)), m2.waf)
        pe == RDiv(total_flash_bytes, p.capacity_bytes)
        m3 == [m2 EXCEPT !.pe_cycles_consumed = pe,
                         !.wear_percentage =
                             RMul(RDiv(pe, Num(p.rated_pe_cycles)), Num(100))]
        l == calculate_remaining_lifetime(p, m3)
    IN  [raised |-> "none",
         metrics |-> Some([m3 EXCEPT
             !.estimated_remaining_days = l.estimated_remaining_days,
             !.estimated_remaining_years = l.estimated_remaining_years])]

\* Mutant: the cycles consumed are derived from the host delta of the period.
calculate_wear_from_delta(p, d1, d2, t1, t2, n1, n2) ==
    IF IsNone(t1) \/ IsNone(t2)
    THEN [raised |-> "TypeError", metrics |-> None]
    ELSE
    LET time_delta_days == Rat(Val(t2) - Val(t1), 86400)
    IN
    IF time_delta_rejected(time_delta_days)
    THEN [raised |-> "ValueError", metrics |-> None]
    ELSE IF RIsZero(p.capacity_gb) \/ p.rated_pe_cycles = 0
    THEN [raised |-> "ZeroDivisionError", metrics |-> None]
    ELSE
    LET host_units_delta == d2 - d1
        host_writes_delta ==
            RMul(RMul(Num(host_units_delta), p.host_lba_size_kb), Num(1024))
        total_host_bytes == RMul(RMul(Num(d2), p.host_lba_size_kb), Num(1024))
        daily_host_gb == RDiv(host_writes_delta, BytesPerGB)
        daily_write_rate_gb == RDiv(daily_host_gb, time_delta_days)
        m1 == [EnduranceMetrics EXCEPT
                 !.time_delta_days = time_delta_days,
                 !.host_writes_delta = host_writes_delta,
                 !.total_host_writes_tb = DivKiBPow(total_host_bytes, 4),
                 !.daily_write_rate_gb = daily_write_rate_gb,
                 !.dwpd = RDiv(daily_write_rate_gb, p.capacity_gb)]
        w == calculate_waf(p, m1, n1, n2)
        m2 == [m1 EXCEPT !.flash_writes_delta = w.flash_writes_delta,
                         !.total_flash_writes_tb = w.total_flash_writes_tb,
                         !.waf = w.waf]
        total_flash_bytes ==
            RMul(RMul(RMul(Num(d2 - d1), p.host_lba_size_kb), Num(1024)), m2.waf)
        pe == RDiv(total_flash_bytes, p.capacity_bytes)
        m3 == [m2 EXCEPT !.pe_cycles_consumed = pe,
                         !.wear_percentage =
                             RMul(RDiv(pe, Num(p.rated_pe_cycles)), Num(100))]
        l == calculate_remaining_lifetime(p, m3)
    IN  [raised |-> "none",
         metrics |-> Some([m3 EXCEPT
             !.estimated_remaining_days = l.estimated_remaining_days,
             !.estimated_remaining_years = l.estimated_remaining_years])]

\* calculate(d1, d2, t1, t2, n1, n2) on a calculator built with p:
\* [raised |-> the exception, or "none", metrics |-> the returned metrics].
calculate(p, d1, d2, t1, t2, n1, n2) ==
    IF IsNone(t1) \/ IsNone(t2)
    THEN [raised |-> "TypeError", metrics |-> None]
    ELSE
    LET time_delta_days == Rat(Val(t2) - Val(t1), 86400)
    IN
    IF time_delta_rejected(time_delta_days)
    THEN [raised |-> "ValueError", metrics |-> None]
    ELSE IF RIsZero(p.capacity_gb) \/ p.rated_pe_cycles = 0
    THEN [raised |-> "ZeroDivisionError", metrics |-> None]
    ELSE
    LET host_units_delta == d2 - d1
        host_writes_delta ==
            RMul(RMul(Num(host_units_delta), p.host_lba_size_kb), Num(1024))
        total_host_bytes == RMul(RMul(Num(d2), p.host_lba_size_kb), Num(1024))
        daily_host_gb == RDiv(host_writes_delta, BytesPerGB)
        daily_write_rate_gb == RDiv(daily_host_gb, time_delta_days)
        m1 == [EnduranceMetrics EXCEPT
                 !.time_delta_days = time_delta_days,
                 !.host_writes_delta = host_writes_delta,
                 !.total_host_writes_tb = DivKiBPow(total_host_bytes, 4),
                 !.daily_write_rate_gb = daily_write_rate_gb,
                 !.dwpd = RDiv(daily_write_rate_gb, p.capacity_gb)]
        w == calculate_waf(p, m1, n1, n2)
        m2 == [m1 EXCEPT !.flash_writes_delta = w.flash_writes_delta,
                         !.total_flash_writes_tb = w.total_flash_writes_tb,
                         !.waf = w.waf]
        total_flash_bytes ==
            RMul(RMul(RMul(Num(d2), p.host_lba_size_kb), Num(1024)), m2.waf)
        pe == RDiv(total_flash_bytes, p.capacity_bytes)
        m3 == [m2 EXCEPT !.pe_cycles_consumed = pe,
                         !.wear_percentage =
                             RMul(RDiv(pe, Num(p.rated_pe_cycles)), Num(100))]
        l == calculate_remaining_lifetime(p, m3)
    IN  [raised |-> "none",
         metrics |-> Some([m3 EXCEPT
             !.estimated_remaining_days = l.estimated_remaining_days,
             !.estimated_remaining_years = l.estimated_remaining_years])]

(* ------------------------------ the system ----------------------------- *)

\* main is not running: the validator, the engine or the extractor is used
\* on its own.
MainIdle ==
    /\ args = [capacity |-> None, host_lba_size |-> Num(1), flash_lba_size |-> Num(1),
               rated_pe_cycles |-> 1, output |-> "stdout"]
    /\ files = <<None, None>>
    /\ pc = "idle"
    /\ capacity_gb = None
    /\ ran = <<>>
    /\ failure = None
    /\ report = FALSE
    /\ exit_code = None

\* Two extracted snapshots and a constructed calculator; nothing run yet.
Init ==
    /\ snapshot1 \in SmartData
    /\ snapshot2 \in SmartData
    /\ \E h \in HostLbaSizes, f \in FlashLbaSizes, r \in RatedPeCycles,
          c \in Capacities : params = DriveParams(h, f, r, c)
    /\ nand = <<None, None>>
    /\ validated = "pending"
    /\ outcome = "pending"
    /\ metrics = None
    /\ content = <<>>
    /\ parse_outcome = "idle"
    /\ parsed = None
    /\ MainIdle

\* parser.validate_snapshots(snapshot1, snapshot2).
Validate ==
    /\ validated = "pending"
    /\ outcome = "pending"
    /\ validated' = validate_snapshots(snapshot1, snapshot2)
    /\ UNCHANGED <<snapshot1, snapshot2, params, nand, outcome, metrics>>
    /\ UNCHANGED <<parserVars, mainVars>>

\* calculator.calculate(...) on the two snapshots' counters and timestamps,
\* with the optional flash-side counters n1 and n2.  The engine is a public
\* entry point: it can be called on a pair whether or not the pair was
\* validated, but main never calls it after a failed validation.
Calculate ==
    /\ outcome = "pending"
    /\ validated \in {"pending", "ok"}
    /\ \E n1 \in NandCounters, n2 \in NandCounters :
          LET res == calculate(params,
                               snapshot1.data_units_written,
                               snapshot2.data_units_written,
                               snapshot1.timestamp, snapshot2.timestamp,
                               n1, n2)
          IN  /\ nand' = <<n1, n2>>
              /\ outcome' = IF res.raised = "none" THEN "returned" ELSE res.raised
              /\ metrics' = res.metrics
    /\ UNCHANGED <<snapshot1, snapshot2, params, validated>>
    /\ UNCHANGED <<parserVars, mainVars>>

Next == Validate \/ Calculate

Spec == Init /\ [][Next]_vars

(* ----------------------------- the extractor --------------------------- *)

\* No pair and no calculator: the validator and the engine are not in use.
EngineIdle ==
    /\ snapshot1 = [serial |-> None, timestamp |-> None, data_units_written |-> 0]
    /\ snapshot2 = snapshot1
    /\ params = DriveParams(Num(1), Num(1), 1, Num(1))
    /\ nand = <<None, None>>
    /\ validated = "idle"
    /\ outcome = "idle"
    /\ metrics = None

\* A file holding any text, not parsed yet.
InitParse ==
    /\ EngineIdle
    /\ content \in Texts
    /\ parse_outcome = "pending"
    /\ parsed = None
    /\ MainIdle

\* parser.parse_file(filepath) on a file that exists.
ParseFile ==
    /\ parse_outcome = "pending"
    /\ LET res == parse_file(content)
       IN  /\ parse_outcome' = IF res.raised = "none" THEN "returned" ELSE res.raised
           /\ parsed' = res.data
    /\ UNCHANGED <<content, engineVars, mainVars>>

NextParse == ParseFile

SpecParse == InitParse /\ [][NextParse]_vars

(* ------------------------------- main ---------------------------------- *)

\* The snapshot files a run can be pointed at: None is a path with no file.
FileMissing == None

FileEmpty == Some(<<>>)

FileDay0 == Some(<<LineNvmeHeader, LineWritten5, LineTimeIso, LineSerial>>)

FileDay0Capacity == Some(<<LineNvmeHeader, LineWritten5, LineTimeIso, LineCapacity>>)

FileDay1 == Some(<<LineNvmeHeader, LineWritten12, LineTimeIsoNext, LineSerial>>)

FileDay1Capacity ==
    Some(<<LineNvmeHeader, LineWritten12, LineTimeIsoNext, LineCapacity>>)

FileDay1CapacityZero ==
    Some(<<LineNvmeHeader, LineWritten12, LineTimeIsoNext, LineCapacityZero>>)

FileNoTime == Some(<<LineNvmeHeader, LineWritten12, LineCapacity>>)

SnapshotFiles ==
    {FileMissing, FileEmpty, FileDay0, FileDay0Capacity, FileDay1,
     FileDay1Capacity, FileDay1CapacityZero, FileNoTime}

\* What argparse lets through: any float for the two unit sizes and the
\* capacity (which may be left out), any int for the rated cycles, and an
\* output path that may be left out or may not be writable.
ArgCapacities == {None, Some(Num(0)), Some(Rat(-1, 1024 * 1024)), Some(Rat(1, 1024 * 1024))}

ArgHostLbaSizes == {Num(0), Num(1)}

ArgFlashLbaSizes == {Num(0), Num(32)}

ArgRatedPeCycles == {0, 3}

ArgOutputs == {"stdout", "file", "unwritable"}

Args ==
    [capacity : ArgCapacities, host_lba_size : ArgHostLbaSizes,
     flash_lba_size : ArgFlashLbaSizes, rated_pe_cycles : ArgRatedPeCycles,
     output : ArgOutputs]

\* Python truthiness of an Optional[float]: None and 0.0 are falsy.
TruthyFloat(o) == ~IsNone(o) /\ ~RIsZero(Val(o))

\* Python truthiness of an Optional[int]: None and 0 are falsy.
TruthyInt(o) == ~IsNone(o) /\ Val(o) # 0

\* _determine_capacity(args, snapshot2): the capacity in GB, or None for
\* sys.exit(1).
determine_capacity(a, s2) ==
    IF TruthyFloat(a.capacity) THEN a.capacity
    ELSE IF TruthyInt(s2.capacity_bytes)
    THEN Some(Rat(Val(s2.capacity_bytes), 1024 * 1024 * 1024))
    ELSE None

\* open(filepath) and parse_file: FileNotFoundError when there is no file.
open_and_parse(file) ==
    IF IsNone(file) THEN [raised |-> "FileNotFoundError", data |-> None]
    ELSE parse_file(Val(file))

\* The stages of main, in the order of its statements.
Stages == <<"parse1", "parse2", "validate", "capacity", "calculate", "report">>

StageAfter(stage) ==
    IF stage = "report" THEN "done"
    ELSE Stages[1 + CHOOSE i \in 1..Len(Stages) : Stages[i] = stage]

\* Mutant: a stage that raised is followed by the next stage all the same.
next_stage_continue(stage, raised) == StageAfter(stage)

\* Where main goes after a stage: on, or out of the try block when the stage
\* raised.
next_stage(stage, raised) == IF raised = "none" THEN StageAfter(stage) ELSE "done"

\* The exit status of the process after an exception: the two except clauses
\* and _determine_capacity call sys.exit(1), and an exception that no clause
\* catches ends the interpreter with status 1 after the traceback.
exit_status(raised) ==
    CASE raised \in {"FileNotFoundError", "could_not_parse", "invalid_literal",
                     "different_drives", "timestamp_order", "units_decreased",
                     "ValueError"} -> 1
      [] raised = "SystemExit" -> 1
      [] OTHER -> 1

\* A stage has run and raised, or returned with "none".
Ran(stage, raised) ==
    /\ pc' = next_stage(stage, raised)
    /\ ran' = Append(ran, stage)
    /\ failure' = IF raised = "none" THEN failure ELSE Some(stage)
    /\ exit_code' = IF raised = "none" THEN exit_code ELSE Some(exit_status(raised))

NoSnapshot ==
    [timestamp |-> None, model |-> None, serial |-> None, capacity_bytes |-> None,
     data_units_written |-> 0, data_units_read |-> None, power_on_hours |-> None,
     percentage_used |-> None, available_spare |-> None, is_nvme |-> FALSE]

\* main after parse_arguments() returned.
InitMain ==
    /\ args \in Args
    /\ files \in SnapshotFiles \X SnapshotFiles
    /\ pc = "parse1"
    /\ capacity_gb = None
    /\ ran = <<>>
    /\ failure = None
    /\ report = FALSE
    /\ exit_code = None
    /\ snapshot1 = NoSnapshot
    /\ snapshot2 = NoSnapshot
    /\ params = DriveParams(Num(1), Num(1), 1, Num(1))
    /\ nand = <<None, None>>
    /\ validated = "pending"
    /\ outcome = "pending"
    /\ metrics = None
    /\ content = <<>>
    /\ parse_outcome = "idle"
    /\ parsed = None

\* snapshot1 = parser.parse_file(str(args.snapshot1))
MainParse1 ==
    /\ pc = "parse1"
    /\ LET res == open_and_parse(files[1])
       IN  /\ snapshot1' = IF res.raised = "none" THEN Val(res.data) ELSE snapshot1
           /\ Ran("parse1", res.raised)
    /\ UNCHANGED <<snapshot2, params, nand, validated, outcome, metrics>>
    /\ UNCHANGED <<parserVars, args, files, capacity_gb, report>>

\* snapshot2 = parser.parse_file(str(args.snapshot2))
MainParse2 ==
    /\ pc = "parse2"
    /\ LET res == open_and_parse(files[2])
       IN  /\ snapshot2' = IF res.raised = "none" THEN Val(res.data) ELSE snapshot2
           /\ Ran("parse2", res.raised)
    /\ UNCHANGED <<snapshot1, params, nand, validated, outcome, metrics>>
    /\ UNCHANGED <<parserVars, args, files, capacity_gb, report>>

\* parser.validate_snapshots(snapshot1, snapshot2)
MainValidate ==
    /\ pc = "validate"
    /\ validated' = validate_snapshots(snapshot1, snapshot2)
    /\ Ran("validate", IF validated' = "ok" THEN "none" ELSE validated')
    /\ UNCHANGED <<snapshot1, snapshot2, params, nand, outcome, metrics>>
    /\ UNCHANGED <<parserVars, args, files, capacity_gb, report>>

\* capacity_gb = _determine_capacity(args, snapshot2)
MainDetermineCapacity ==
    /\ pc = "capacity"
    /\ capacity_gb' = determine_capacity(args, snapshot2)
    /\ Ran("capacity", IF IsNone(capacity_gb') THEN "SystemExit" ELSE "none")
    /\ UNCHANGED <<engineVars, parserVars, args, files, report>>

\* calculator = EnduranceCalculator(...) from the arguments as given, and
\* metrics = calculator.calculate(...) without flash-side counters.
MainCalculate ==
    /\ pc = "calculate"
    /\ params' = DriveParams(args.host_lba_size, args.flash_lba_size,
                             args.rated_pe_cycles, Val(capacity_gb))
    /\ LET res == calculate(params', snapshot1.data_units_written,
                            snapshot2.data_units_written,
                            snapshot1.timestamp, snapshot2.timestamp, None, None)
       IN  /\ outcome' = IF res.raised = "none" THEN "returned" ELSE res.raised
           /\ metrics' = res.metrics
           /\ Ran("calculate", res.raised)
    /\ UNCHANGED <<snapshot1, snapshot2, nand, validated>>
    /\ UNCHANGED <<parserVars, args, files, capacity_gb, report>>

\* report = format_analysis_report(...), then the report written to
\* args.output or printed.  open() of an output path that cannot be written
\* raises before anything is written.
MainReport ==
    /\ pc = "report"
    /\ report' = (args.output # "unwritable")
    /\ IF args.output = "unwritable"
       THEN Ran("report", "OSError")
       ELSE /\ pc' = "done"
            /\ ran' = Append(ran, "report")
            /\ failure' = failure
            /\ exit_code' = Some(0)
    /\ UNCHANGED <<engineVars, parserVars, args, files, capacity_gb>>

NextMain ==
    \/ MainParse1
    \/ MainParse2
    \/ MainValidate
    \/ MainDetermineCapacity
    \/ MainCalculate
    \/ MainReport

SpecMain == InitMain /\ [][NextMain]_vars

(* ------------------------- vocabulary of the claims -------------------- *)

Validated == validated # "pending"

Called == outcome # "pending"

Returned == outcome = "returned"

M == Val(metrics)

BothTimes == ~IsNone(snapshot1.timestamp) /\ ~IsNone(snapshot2.timestamp)

T1 == Val(snapshot1.timestamp)

T2 == Val(snapshot2.timestamp)

D1 == snapshot1.data_units_written

D2 == snapshot2.data_units_written

BothNand == ~IsNone(nand[1]) /\ ~IsNone(nand[2])

FlashUnitsDelta == Val(nand[2]) - Val(nand[1])

(* --------------------------------- C1 ---------------------------------- *)

\* C1: validate_snapshots returns without error only if snapshot 2's write
\* counter is at least snapshot 1's and, when both timestamps are present,
\* snapshot 1's is strictly earlier; equal timestamps are rejected and equal
\* counters are never the reason for a rejection.
C1_MonotonicCounter ==
    /\ validated = "ok" =>
          /\ D2 >= D1
          /\ BothTimes => T1 < T2
    /\ (Validated /\ BothTimes /\ T1 = T2) => validated # "ok"
    /\ (Validated /\ D1 = D2) => validated # "units_decreased"

C1_Witness ==
    /\ validated = "ok"
    /\ BothTimes
    /\ T1 < T2
    /\ D1 = D2

(* --------------------------------- C2 ---------------------------------- *)

\* C2 as stated: whenever both snapshots carry a serial (it is not None)
\* and the two differ, validation fails with the identity mismatch.
C2_AsStated ==
    (/\ Validated
     /\ ~IsNone(snapshot1.serial) /\ ~IsNone(snapshot2.serial)
     /\ snapshot1.serial # snapshot2.serial)
    => validated = "different_drives"

\* C2 amended: whenever both snapshots carry a non-empty serial and the two
\* differ, validation fails with the identity mismatch, whatever the
\* timestamps and the counters are.
C2_IdentityMismatch ==
    (/\ Validated
     /\ TruthyStr(snapshot1.serial) /\ TruthyStr(snapshot2.serial)
     /\ snapshot1.serial # snapshot2.serial)
    => validated = "different_drives"

C2_Witness ==
    /\ validated = "different_drives"
    /\ BothTimes /\ T1 >= T2
    /\ D2 < D1

(* --------------------------------- C3 ---------------------------------- *)

\* C3: a pair whose counter does not decrease, with a serial absent on at
\* least one side and a timestamp absent on at least one side, is accepted.
C3_AbsentFieldsSkip ==
    (/\ Validated
     /\ D2 >= D1
     /\ IsNone(snapshot1.serial) \/ IsNone(snapshot2.serial)
     /\ IsNone(snapshot1.timestamp) \/ IsNone(snapshot2.timestamp))
    => validated = "ok"

C3_Witness ==
    /\ validated = "ok"
    /\ IsNone(snapshot1.serial) /\ TruthyStr(snapshot2.serial)
    /\ ~IsNone(snapshot1.timestamp) /\ IsNone(snapshot2.timestamp)

(* --------------------------------- C4 ---------------------------------- *)

\* C4: calculate raises the "Time delta must be positive" ValueError, and
\* returns no metrics, exactly when snapshot 2's timestamp is equal to or
\* earlier than snapshot 1's; it never raises it when snapshot 2 is later.
C4_NonPositiveElapsed ==
    Called =>
        /\ (BothTimes /\ T2 <= T1) => (outcome = "ValueError" /\ IsNone(metrics))
        /\ outcome = "ValueError" => (BothTimes /\ T2 <= T1)

C4_Witness ==
    /\ outcome = "ValueError"
    /\ BothTimes /\ T2 < T1
    /\ IsNone(metrics)

(* --------------------------------- C5 ---------------------------------- *)

\* C5: for every pair validate_snapshots accepted, calculate either returns
\* metrics or raises the non-positive-elapsed-time ValueError, nothing else.
C5_OnlyFailureMode ==
    (validated = "ok" /\ Called) => outcome \in {"returned", "ValueError"}

(* --------------------------------- C6 ---------------------------------- *)

\* C6: when the flash counter of either snapshot is not supplied, the
\* returned write amplification factor is exactly 1.0.
C6_WafDefault ==
    (Returned /\ ~BothNand) => M.waf = Num(1)

C6_Witness ==
    /\ Returned
    /\ IsNone(nand[1]) /\ ~IsNone(nand[2]) /\ Val(nand[2]) > 0
    /\ D2 > D1

(* --------------------------------- C7 ---------------------------------- *)

\* C7: with both flash counters supplied and a host byte delta of 0,
\* calculate returns (no division error) with waf exactly 1.0, whatever the
\* flash counter delta is.
C7_WafZeroHostDelta ==
    (Called /\ BothNand /\ BothTimes /\ T2 > T1 /\ D1 = D2)
    => /\ Returned
       /\ RIsZero(M.host_writes_delta)
       /\ M.waf = Num(1)

C7_Witness ==
    /\ Returned
    /\ BothNand /\ FlashUnitsDelta < 0
    /\ RIsZero(M.host_writes_delta)

(* --------------------------------- C8 ---------------------------------- *)

\* The flash byte delta and the ratio C8 speaks of.
C8_Measured ==
    /\ M.flash_writes_delta =
           RMul(RMul(Num(FlashUnitsDelta), params.flash_lba_size_kb), Num(1024))
    /\ M.waf = RDiv(M.flash_writes_delta, M.host_writes_delta)

\* C8 as stated: with both flash counters supplied and a host byte delta
\* different from 0, waf = flash_bytes_delta / host_bytes_delta.
C8_AsStated ==
    (Returned /\ BothNand /\ ~RIsZero(M.host_writes_delta)) => C8_Measured

\* C8 amended: with both flash counters supplied and a host byte delta
\* greater than 0, waf = flash_bytes_delta / host_bytes_delta, where
\* flash_bytes_delta = (flash counter delta) x flash_unit_size x 1024.
C8_MeasuredWaf ==
    (Returned /\ BothNand /\ RGt0(M.host_writes_delta)) => C8_Measured

C8_Witness ==
    /\ Returned
    /\ BothNand /\ FlashUnitsDelta > 0
    /\ RGt0(M.host_writes_delta)
    /\ M.waf = Num(16)

(* --------------------------------- C9 ---------------------------------- *)

\* C9: in every result, cycles consumed >= rated cycles implies that the
\* estimated remaining days and years are both exactly 0.
C9_Exhaustion ==
    (Returned /\ RGe(M.pe_cycles_consumed, Num(params.rated_pe_cycles)))
    => /\ M.estimated_remaining_days = Num(0)
       /\ M.estimated_remaining_years = Num(0)

C9_Witness ==
    /\ Returned
    /\ RGt0(RSub(M.pe_cycles_consumed, Num(params.rated_pe_cycles)))
    /\ RGt0(M.daily_write_rate_gb)
    /\ RGt0(M.waf)
    /\ M.estimated_remaining_days = Num(0)

(* --------------------------------- C10 --------------------------------- *)

\* C10: equal write counters and a positive elapsed time make calculate
\* return a daily write rate of 0, a DWPD of 0 and remaining days and years
\* of 0 (not infinity), also when rated cycles remain.
C10_NoActivity ==
    (Called /\ BothTimes /\ T2 > T1 /\ D1 = D2)
    => /\ Returned
       /\ M.daily_write_rate_gb = Num(0)
       /\ M.dwpd = Num(0)
       /\ M.estimated_remaining_days = Num(0)
       /\ M.estimated_remaining_years = Num(0)

C10_Witness ==
    /\ Returned
    /\ D1 = D2 /\ D2 > 0
    /\ RGt0(RSub(Num(params.rated_pe_cycles), M.pe_cycles_consumed))
    /\ M.estimated_remaining_days = Num(0)
    /\ ~IsInf(M.estimated_remaining_days)

(* --------------------------------- C11 --------------------------------- *)

\* C11: the estimated remaining days and years are positive infinity only
\* when rated cycles remain, the daily write rate is > 0 and the daily flash
\* writes are exactly 0, which needs waf = 0; otherwise they are finite.
C11_InfiniteOnlyAtZeroWaf ==
    (Returned /\ (IsInf(M.estimated_remaining_days)
                  \/ IsInf(M.estimated_remaining_years)))
    => /\ RGt0(RSub(Num(params.rated_pe_cycles), M.pe_cycles_consumed))
       /\ RGt0(M.daily_write_rate_gb)
       /\ RIsZero(RMul(M.daily_write_rate_gb, M.waf))
       /\ RIsZero(M.waf)

(* --------------------------------- C12 --------------------------------- *)

NonNegative(x) == IsInf(x) \/ ~RLt0(x)

\* C12: for a pair validate_snapshots accepted, any flash counters and
\* strictly positive device parameters, every field of the returned metrics
\* is non-negative or positive infinity.
C12_NoNegativeField ==
    (validated = "ok" /\ Returned)
    => /\ NonNegative(M.time_delta_days)
       /\ NonNegative(M.host_writes_delta)
       /\ NonNegative(M.flash_writes_delta)
       /\ NonNegative(M.waf)
       /\ NonNegative(M.total_host_writes_tb)
       /\ NonNegative(M.total_flash_writes_tb)
       /\ NonNegative(M.dwpd)
       /\ NonNegative(M.daily_write_rate_gb)
       /\ NonNegative(M.pe_cycles_consumed)
       /\ NonNegative(M.estimated_remaining_days)
       /\ NonNegative(M.estimated_remaining_years)
       /\ NonNegative(M.wear_percentage)

(* --------------------------------- C20 --------------------------------- *)

\* What the same call returns when no flash counters are passed.
AssumedWafResult ==
    calculate(params, D1, D2, snapshot1.timestamp, snapshot2.timestamp,
              None, None)

\* C20: a result computed from flash counters differs, in some field the
\* caller can read, from the result the same call gives without flash
\* counters (assumed waf 1.0), also when the measured waf is 1.0.
C20_ProvenanceDistinguished ==
    (Returned /\ BothNand /\ RGt0(M.host_writes_delta) /\ M.waf = Num(1))
    => metrics # AssumedWafResult.metrics

(* ------------------------ claims on the extractor ---------------------- *)

Parsed == parse_outcome \in {"returned", "could_not_parse", "invalid_literal"}

Flat == Flatten(content, 1)

\* The write counter as the rule of the detected dialect reads it.
DetectedRule == IF is_nvme(Flat) THEN nvme_written(Flat) ELSE sata_written(Flat)

\* A rule locates the write counter: it matches and the match is an integer.
Located(w) == w.found /\ ~IsNone(w.value)

WrittenLocated == Located(DetectedRule)

\* The text contains the label l, followed by anything.
HasLabel(l) == \E i \in 1..Len(Flat) : LabelAt(Flat, i, l)

\* C13: for any text in which the write counter is located, parse_file
\* returns a snapshot, in which the capacity, the read counter and the
\* timestamp are absent when their labels did not match; a 'Local Time is:'
\* line that no grammar parses leaves the timestamp absent and is not an
\* error.
C13_OptionalFieldsNeverFail ==
    (Parsed /\ WrittenLocated)
    => /\ parse_outcome = "returned"
       /\ ~parse_capacity(Flat).found => IsNone(Val(parsed).capacity_bytes)
       /\ ~HasLabel(Label(<<"Data", "Units", "Read:">>))
             => IsNone(Val(parsed).data_units_read)
       /\ IsNone(parse_timestamp(Flat)) => IsNone(Val(parsed).timestamp)

\* C14: a text with neither the label 'Data Units Written:' nor a row for
\* 241 / Total_LBAs_Written makes parse_file fail with the missing-field
\* error and return no snapshot.
C14_NoLabelIsMissingField ==
    (/\ Parsed
     /\ ~HasLabel(Label(<<"Data", "Units", "Written:">>))
     /\ ~HasLabel(<<<<"2", "4", "1">>>>)
     /\ ~HasLabel(Label(<<"Total_LBAs_Written">>)))
    => parse_outcome = "could_not_parse" /\ IsNone(parsed)

\* C15 as stated: parse_file fails with the missing-field error only if
\* neither dialect's rule locates the write counter.
C15_AsStated ==
    parse_outcome = "could_not_parse"
    => ~Located(nvme_written(Flat)) /\ ~Located(sata_written(Flat))

\* C15: parse_file fails with the missing-field error only if the rule of
\* the detected dialect (the flash rule when the text contains the marker,
\* the legacy rule otherwise) does not locate the write counter, and a
\* snapshot it returns carries the value that rule read.
C15_DetectedDialectOnly ==
    /\ parse_outcome = "could_not_parse" => ~DetectedRule.found
    /\ parse_outcome = "returned"
          => /\ WrittenLocated
             /\ Val(parsed).data_units_written = Val(DetectedRule.value)

\* The missing-field error on a marked text whose write counter the legacy
\* rule locates.
C15_Witness ==
    /\ parse_outcome = "could_not_parse"
    /\ is_nvme(Flat)
    /\ Located(sata_written(Flat))

(* ---------------------------- claims on main --------------------------- *)

StageRan(stage) == \E i \in 1..Len(ran) : ran[i] = stage

\* C17: the capacity used by the engine is the caller's whenever the caller
\* supplied one, otherwise capacity_bytes / 1024^3 of snapshot 2; when
\* neither is available (a capacity of 0 bytes in the text counting as not
\* available) the run fails at capacity resolution and calculate is not
\* invoked.
C17_CapacityResolution ==
    /\ StageRan("capacity")
          => /\ ~IsNone(args.capacity) => capacity_gb = args.capacity
             /\ (IsNone(args.capacity) /\ TruthyInt(snapshot2.capacity_bytes))
                   => capacity_gb =
                         Some(Rat(Val(snapshot2.capacity_bytes), 1024 * 1024 * 1024))
             /\ (IsNone(args.capacity) /\ ~TruthyInt(snapshot2.capacity_bytes))
                   => failure = Some("capacity") /\ ~StageRan("calculate")
    /\ StageRan("calculate") => Some(params.capacity_gb) = capacity_gb

\* C18: the device parameters that reach calculate are all strictly
\* positive.
C18_PositiveParameters ==
    StageRan("calculate")
    => /\ RGt0(params.host_lba_size_kb)
       /\ RGt0(params.flash_lba_size_kb)
       /\ params.rated_pe_cycles > 0
       /\ RGt0(params.capacity_gb)

\* C19: the stages run in order; calculate runs only after both
\* extractions, the validation and the capacity resolution succeeded; a
\* report is emitted only after calculate succeeded; a stage that fails is the
\* last stage run, and the run ends with exit code 1 and no report.
C19_OrderedAllOrNothing ==
    /\ Len(ran) <= Len(Stages)
    /\ \A i \in 1..Len(ran) : ran[i] = Stages[i]
    /\ StageRan("calculate") => validated = "ok" /\ ~IsNone(capacity_gb)
    /\ report => /\ outcome = "returned"
                 /\ IsNone(failure)
                 /\ exit_code = Some(0)
    /\ ~IsNone(failure) => /\ ran # <<>>
                           /\ ran[Len(ran)] = Val(failure)
                           /\ pc = "done"
                           /\ exit_code = Some(1)
                           /\ ~report

\* calculate raised after the four earlier stages succeeded.
C19_Witness ==
    /\ failure = Some("calculate")
    /\ ran = SubSeq(Stages, 1, 5)
    /\ exit_code = Some(1)
    /\ ~report

(* --------------------------------- C21 --------------------------------- *)

\* C21: in every result of calculate the host byte delta is (snapshot 2's
\* counter - snapshot 1's counter) x host unit size x 1024, and the total host
\* bytes written come from snapshot 2's counter alone.
C21_HostBytes ==
    Returned
    => /\ M.host_writes_delta = RMul(params.host_lba_size_kb, Num(1024 * (D2 - D1)))
       /\ M.total_host_writes_tb = DivKiBPow(RMul(params.host_lba_size_kb, Num(D2)), 3)

\* A result for two different positive counters: the delta and the total
\* differ.
C21_Witness ==
    /\ Returned
    /\ D1 > 0
    /\ D2 > D1
    /\ M.host_writes_delta = RMul(params.host_lba_size_kb, Num(1024 * (D2 - D1)))

(* --------------------------------- C22 --------------------------------- *)

\* C22: in every result of calculate, dwpd x capacity x elapsed days is the
\* host byte delta / 1024^3: the elapsed days are the seconds between the
\* timestamps / 86400, the daily rate is the host GB delta / elapsed days, and
\* dwpd is the daily rate / capacity.
C22_DriveWritesPerDay ==
    Returned
    => /\ M.time_delta_days = Rat(T2 - T1, 86400)
       /\ RMul(M.daily_write_rate_gb, M.time_delta_days)
             = DivKiBPow(M.host_writes_delta, 3)
       /\ RMul(M.dwpd, params.capacity_gb) = M.daily_write_rate_gb
       /\ RMul(RMul(M.dwpd, params.capacity_gb), M.time_delta_days)
             = DivKiBPow(M.host_writes_delta, 3)

\* A result over two days with host writes.
C22_Witness ==
    /\ Returned
    /\ M.time_delta_days = Num(2)
    /\ RGt0(M.host_writes_delta)
    /\ RMul(RMul(M.dwpd, params.capacity_gb), Num(2)) = DivKiBPow(M.host_writes_delta, 3)

(* --------------------------------- C23 --------------------------------- *)

\* C23: in every result of calculate, the cycles consumed are snapshot 2's
\* counter x host unit size x 1024 x waf / capacity in bytes, and the wear
\* percent is 100 x cycles consumed / rated cycles, without a clamp at 100.
C23_WearPercent ==
    Returned
    => /\ RMul(M.pe_cycles_consumed, params.capacity_bytes)
             = RMul(M.waf, RMul(params.host_lba_size_kb, Num(1024 * D2)))
       /\ RMul(M.wear_percentage, Num(params.rated_pe_cycles))
             = RMul(Num(100), M.pe_cycles_consumed)

\* A result whose wear percent exceeds 100.
C23_Witness ==
    /\ Returned
    /\ RGt0(RSub(M.wear_percentage, Num(100)))
    /\ D1 > 0

(* --------------------------------- C24 --------------------------------- *)

\* A token made of digits and separators, with at least one digit.
IsSeparatedNumber(tok) ==
    /\ \A i \in 1..Len(tok) : IsNumChar(tok[i])
    /\ \E i \in 1..Len(tok) : IsDigit(tok[i])

\* The text with every number written without its separators.
WithoutSeparators(text) ==
    [i \in 1..Len(text) |->
        [j \in 1..Len(text[i]) |->
            IF IsSeparatedNumber(text[i][j]) THEN StripCommas(text[i][j])
            ELSE text[i][j]]]

\* C24: every integer field read from a text (capacity, write counter, read
\* counter, power-on hours, in either dialect) has the value read from the
\* same text with the numbers written without separators.
C24_SeparatorsTolerated ==
    parse_outcome = "returned"
    => /\ parse_file(WithoutSeparators(content)).raised = "none"
       /\ Val(parsed).data_units_written
             = Val(parse_file(WithoutSeparators(content)).data).data_units_written
       /\ Val(parsed).capacity_bytes
             = Val(parse_file(WithoutSeparators(content)).data).capacity_bytes
       /\ Val(parsed).data_units_read
             = Val(parse_file(WithoutSeparators(content)).data).data_units_read
       /\ Val(parsed).power_on_hours
             = Val(parse_file(WithoutSeparators(content)).data).power_on_hours

(* --------------------------------- C26 --------------------------------- *)

\* The lines of the text that are the attribute-table row of the given ID
\* or name: ten columns, the first the ID or the second the name.
AttributeRows(id, name) ==
    {i \in 1..Len(content) : /\ Len(content[i]) = 10
                             /\ content[i][1] = id \/ content[i][2] = W(name)}

\* The leading digits of the last column of line i.
RawValue(i) ==
    DecimalValue(SubSeq(content[i][10], 1, RunLen(content[i][10], Digits)))

\* The raw value of the first row of the given ID or name, None without one.
RawOfRow(id, name) ==
    IF AttributeRows(id, name) = {} THEN None
    ELSE Some(RawValue(CHOOSE i \in AttributeRows(id, name) :
                          \A j \in AttributeRows(id, name) : i <= j))

\* C26: in a legacy-dialect text, data_units_written is the raw value of the
\* row 241 / Total_LBAs_Written and power_on_hours the raw value of the row
\* 9 / Power_On_Hours (absent without such a row), whatever else the text
\* contains.
C26_OwnRow ==
    (parse_outcome = "returned" /\ ~is_nvme(Flat))
    => /\ Some(Val(parsed).data_units_written)
             = RawOfRow(<<"2", "4", "1">>, "Total_LBAs_Written")
       /\ Val(parsed).power_on_hours = RawOfRow(<<"9">>, "Power_On_Hours")

(* --------------------------------- C25 --------------------------------- *)

\* The three rules, each on its own.
IdentityViolated ==
    /\ TruthyStr(snapshot1.serial)
    /\ TruthyStr(snapshot2.serial)
    /\ Val(snapshot1.serial) # Val(snapshot2.serial)

OrderViolated == BothTimes /\ T1 >= T2

CounterViolated == D2 < D1

\* C25: one failure is reported, in the order identity mismatch, timestamp
\* ordering, counter regression: a rule's failure is reported exactly when
\* the rule is violated and no earlier rule is.
C25_FirstViolatedRule ==
    Validated
    => /\ validated = "different_drives" <=> IdentityViolated
       /\ validated = "timestamp_order" <=> (~IdentityViolated /\ OrderViolated)
       /\ validated = "units_decreased"
             <=> (~IdentityViolated /\ ~OrderViolated /\ CounterViolated)

\* A pair that violates the last two rules: the ordering failure is reported.
C25_Witness ==
    /\ validated = "timestamp_order"
    /\ OrderViolated
    /\ CounterViolated

(* --------------------------------- C27 --------------------------------- *)

\* a < b and a <= b on floats that may be float('inf').
Less(a, b) ==
    IF IsInf(a) THEN FALSE
    ELSE IF IsInf(b) THEN TRUE
    ELSE RGt0(RSub(b, a))

AtMost(a, b) == a = b \/ Less(a, b)

\* estimated_remaining_years of the same call on a calculator that differs
\* only in its rated cycles, r.
YearsUnder(r) ==
    Val(calculate(DriveParams(params.host_lba_size_kb, params.flash_lba_size_kb,
                              r, params.capacity_gb),
                  D1, D2, snapshot1.timestamp, snapshot2.timestamp,
                  nand[1], nand[2]).metrics).estimated_remaining_years

\* C27: for a calculator with more rated cycles and the same inputs, the
\* remaining years are never less, and are strictly greater when the daily
\* write rate is > 0, waf is > 0 and the larger rating exceeds the cycles
\* consumed.
C27_MonotonicInRating ==
    Returned
    => \A k \in 1..MaxExtraCycles :
          LET more == YearsUnder(params.rated_pe_cycles + k)
          IN  IF /\ RGt0(M.daily_write_rate_gb)
                 /\ RGt0(M.waf)
                 /\ RGt0(RSub(Num(params.rated_pe_cycles + k), M.pe_cycles_consumed))
              THEN Less(M.estimated_remaining_years, more)
              ELSE AtMost(M.estimated_remaining_years, more)

\* Both calculators have cycles left: two finite positive estimates, the second
\* greater.
C27_Witness ==
    /\ Returned
    /\ RGt0(M.estimated_remaining_years)
    /\ ~IsInf(M.estimated_remaining_years)
    /\ Less(M.estimated_remaining_years, YearsUnder(params.rated_pe_cycles + 1))

(* --------------------------------- C28 --------------------------------- *)

\* C28: in every result of calculate, the cycles consumed x the capacity in
\* bytes are the total flash bytes written that the result reports
\* (total_flash_writes_tb), with and without flash counters.
C28_CyclesFromReportedFlashTotal ==
    Returned
    => DivKiBPow(RMul(M.pe_cycles_consumed, params.capacity_bytes), 4)
          = M.total_flash_writes_tb

(* --------------------------------- C29 --------------------------------- *)

\* C29: in every result of calculate on a validated pair whose flash counter
\* did not decrease, the flash byte delta is waf x the host byte delta, also
\* when flash counters are supplied and the host delta is 0.
C29_FlashDeltaIsWafTimesHostDelta ==
    (Returned /\ validated = "ok" /\ (BothNand => FlashUnitsDelta >= 0))
    => M.flash_writes_delta = RMul(M.waf, M.host_writes_delta)

(* --------------------------------- C30 --------------------------------- *)

\* The metrics of the same run with the flash unit size f.
MetricsWithFlashUnit(f) ==
    calculate(DriveParams(args.host_lba_size, f, args.rated_pe_cycles,
                          Val(capacity_gb)),
              D1, D2, snapshot1.timestamp, snapshot2.timestamp,
              None, None).metrics

\* C30: main passes no flash counters to the engine, so every run that emits
\* a report has waf 1 and metrics that are the same for every flash unit
\* size.
C30_FlashUnitHasNoEffect ==
    report
    => /\ nand = <<None, None>>
       /\ M.waf = Num(1)
       /\ \A f \in ArgFlashLbaSizes : MetricsWithFlashUnit(f) = metrics

\* A report on a drive that was written to.
C30_Witness ==
    /\ report
    /\ RGt0(M.host_writes_delta)
    /\ M.waf = Num(1)
    /\ \E f \in ArgFlashLbaSizes : f # args.flash_lba_size

====
